---- MODULE Spec2Model ----
(***************************************************************************)
(* State-machine model of the super-payment invoicing backend: the HTTP    *)
(* handlers (internal/api), the InvoiceService (internal/service), the     *)
(* MySQLRepository (internal/repository), the request validation           *)
(* (internal/models) and the table definitions (migrations/001).           *)
(*                                                                         *)
(* Money is an integer count of 1/1000 cent (1 yen = 100 * CentUnits), so  *)
(* that payment amounts given in whole cents have an exact fee (4%) and    *)
(* an exact consumption tax (10% of the fee).  Time is an integer count of *)
(* clock ticks, TicksPerDay ticks to the calendar day; a DATE column keeps *)
(* the day only.  An error value is the chain of messages that             *)
(* fmt.Errorf("...: %w") builds, outermost first; <<>> is the nil error.   *)
(***************************************************************************)
EXTENDS Integers, Sequences, FiniteSets, TLC

\* ---------------------------------------------------------------- bounds
MaxInvoices == 1
MaxTime == 1
MaxListed == 2
MaxCents == 130
MaxCalls == 2

\* ---------------------------------------------------- program constants
CentUnits == 1000
TicksPerDay == 2
FeeRatePct == 4
ConsumptionTaxRatePct == 10
DefaultPage == 1
DefaultLimit == 20
MaxLimit == 100

InvoiceStatusUnprocessed == "unprocessed"
InvoiceStatuses == {"unprocessed", "processing", "paid", "error"}

StatusOK == 200
StatusCreated == 201
StatusBadRequest == 400
StatusUnauthorized == 401
StatusNotFound == 404
StatusInternalServerError == 500

\* ------------------------------------------------------ request inputs
Yen(n) == n * 100 * CentUnits
Emails == {"alice@example.com", "bob@example.com"}
MaxCompanies == Cardinality(Emails)
MaxPartners == Cardinality(Emails)
\* an identifier beyond the rows of a table stands for a row that is absent
UserIds == 1 .. MaxCompanies
PartnerIds == 0 .. MaxPartners
InvoiceIds == 1 .. MaxInvoices + 1
PaymentAmounts == {0 - CentUnits, 0, CentUnits}
NoDate == 0 - 1
DueDates == 0 .. MaxTime + 1
FilterStatuses == {"", "unprocessed"}
NewStatuses == {"paid", "cancelled"}
\* a query or path parameter: not given, unparsable, or a parsed value
Absent == [kind |-> "absent", val |-> 0]
Malformed == [kind |-> "malformed", val |-> 0]
Num(n) == [kind |-> "int", val |-> n]
DateParams == {Absent, Malformed, Num(TicksPerDay)}
PageParams == {Absent, Num(0)}
LimitParams == {Absent, Num(500)}
IdParams == {Malformed} \cup {Num(n) : n \in InvoiceIds}
\* an Authorization header: none, one without the "Bearer " prefix, one
\* whose token fails verification (whatever user its claims name), or a
\* token the server signed for a user
AuthHeader(kind, userID) == [kind |-> kind, user_id |-> userID]
AuthHeaders ==
    {AuthHeader("missing", 0), AuthHeader("no_bearer", 0)}
    \cup {AuthHeader(kind, u) : kind \in {"bad_token", "valid"}, u \in UserIds}
DBError == <<"driver: bad connection">>

\* calls holds the create-invoice requests that are served concurrently,
\* each with its position in the handler and its locals
VARIABLES companies, users, partners, invoices, now, built, repoReq, resp,
          calls
vars == <<companies, users, partners, invoices, now, built, repoReq, resp,
          calls>>

\* ------------------------------------------------------------- helpers
Min(a, b) == IF a < b THEN a ELSE b
Wrap(msg, err) == <<msg>> \o err
Errorf(msg) == <<msg>>
NoError == <<>>
DateOf(t) == (t \div TicksPerDay) * TicksPerDay

\* x * pct / 100 on the integer scale, the product kept inside 32 bits
MulPct(x, pct) == (x \div 100) * pct + ((x % 100) * pct) \div 100
\* math.Round(v*100)/100: to the nearest cent, halves away from zero
\* (Round2Truncated: the variant that drops the fraction of a cent)
Round2Truncated(x) == (x \div CentUnits) * CentUnits
Round2(x) ==
    IF x >= 0 THEN ((x + CentUnits \div 2) \div CentUnits) * CentUnits
    ELSE 0 - (((0 - x) + CentUnits \div 2) \div CentUnits) * CentUnits
\* a DECIMAL(15,2) column: the inserted value rounded to the cent
Decimal2(x) == Round2(x)

\* The database is created with COLLATE utf8mb4_unicode_ci: the server
\* compares strings, the values of an ENUM column included, without regard
\* to letter case.  Collate maps a status string to the representative of
\* the strings the collation holds equal to it.
Collate(s) == IF s = "PAID" THEN "paid" ELSE s

\* ------------------------------------------- repository (MySQLRepository)
\* Each operator returns the Go pair (value, error): val is <<>> for nil or
\* a one-element sequence, err is the message chain.  `failed` says that
\* the database call itself failed.

\* (GetUserByIDOrFirst: the variant that answers with the first user when
\* the id matches none)
GetUserByIDOrFirst(id, failed) ==
    IF failed THEN [val |-> <<>>, err |-> Wrap("failed to get user", DBError)]
    ELSE IF id \in DOMAIN users /\ users[id].company_id \in 1 .. companies
    THEN [val |-> <<[id |-> id, company_id |-> users[id].company_id,
                     email |-> users[id].email]>>, err |-> NoError]
    ELSE IF users # <<>>
    THEN [val |-> <<[id |-> 1, company_id |-> users[1].company_id,
                     email |-> users[1].email]>>, err |-> NoError]
    ELSE [val |-> <<>>, err |-> Errorf("user not found")]
GetUserByID(id, failed) ==
    IF failed THEN [val |-> <<>>, err |-> Wrap("failed to get user", DBError)]
    ELSE IF id \in DOMAIN users /\ users[id].company_id \in 1 .. companies
    THEN [val |-> <<[id |-> id, company_id |-> users[id].company_id,
                     email |-> users[id].email]>>, err |-> NoError]
    ELSE [val |-> <<>>, err |-> Errorf("user not found")]

GetBusinessPartnerByID(id, failed) ==
    IF failed
    THEN [val |-> <<>>, err |-> Wrap("failed to get business partner", DBError)]
    ELSE IF id \in DOMAIN partners
    THEN [val |-> <<[id |-> id, company_id |-> partners[id].company_id]>>,
          err |-> NoError]
    ELSE [val |-> <<>>, err |-> Errorf("business partner not found")]

\* the ids of the business partners of a company
PartnersOfCompany(companyID) ==
    {id \in DOMAIN partners : partners[id].company_id = companyID}

\* a SELECT without ORDER BY leaves the order of its rows to the server:
\* every order of the selected ids is a possible result order
Orders(ids) ==
    {ord \in [1 .. Cardinality(ids) -> ids] :
        \A i, j \in 1 .. Cardinality(ids) : i # j => ord[i] # ord[j]}

\* SELECT ... FROM business_partners WHERE company_id = ?, its rows read in
\* the order ord
GetBusinessPartnersByCompanyID(companyID, ord, failed) ==
    IF failed
    THEN [val |-> <<>>, err |-> Wrap("failed to get business partners", DBError)]
    ELSE [val |-> [k \in 1 .. Len(ord) |->
                      [id |-> ord[k], company_id |-> partners[ord[k]].company_id]],
          err |-> NoError]

\* the row the INSERT leaves in the invoices table: the DECIMAL(15,2)
\* columns keep two decimals, the DATE columns keep the day
InvoiceRow(id, invoice) ==
    [id |-> id,
     company_id |-> invoice.company_id,
     business_partner_id |-> invoice.business_partner_id,
     issue_date |-> DateOf(invoice.issue_date),
     payment_amount |-> Decimal2(invoice.payment_amount),
     fee |-> Decimal2(invoice.fee),
     fee_rate |-> invoice.fee_rate,
     consumption_tax |-> Decimal2(invoice.consumption_tax),
     consumption_tax_rate |-> invoice.consumption_tax_rate,
     invoice_amount |-> Decimal2(invoice.invoice_amount),
     payment_due_date |-> DateOf(invoice.payment_due_date),
     status |-> invoice.status]

\* store is the invoices table after the call, id the generated identifier
RepoCreateInvoice(invoice, failed) ==
    IF failed
    THEN [store |-> invoices, id |-> 0,
          err |-> Wrap("failed to create invoice", DBError)]
    ELSE [store |-> Append(invoices, InvoiceRow(Len(invoices) + 1, invoice)),
          id |-> Len(invoices) + 1, err |-> NoError]

\* reads table `store`, joined with companies and business_partners
RepoGetInvoiceByID(store, id, failed) ==
    IF failed
    THEN [val |-> <<>>, err |-> Wrap("failed to get invoice", DBError)]
    ELSE IF id \in DOMAIN store
            /\ store[id].company_id \in 1 .. companies
            /\ store[id].business_partner_id \in DOMAIN partners
    THEN [val |-> <<store[id]>>, err |-> NoError]
    ELSE [val |-> <<>>, err |-> Errorf("invoice not found")]

\* the WHERE clause of GetInvoicesByCompanyID
\* (MatchesAnyStatus: the variant without `i.status = ?`)
MatchesAnyStatus(row, companyID, req) ==
    /\ row.company_id = companyID
    /\ row.company_id \in 1 .. companies
    /\ row.business_partner_id \in DOMAIN partners
    /\ (req.start_date # NoDate => row.payment_due_date >= req.start_date)
    /\ (req.end_date # NoDate => row.payment_due_date <= req.end_date)
\* (MatchesAnyCompany: the variant without `i.company_id = ?`)
MatchesAnyCompany(row, companyID, req) ==
    /\ row.company_id \in 1 .. companies
    /\ row.business_partner_id \in DOMAIN partners
    /\ (req.start_date # NoDate => row.payment_due_date >= req.start_date)
    /\ (req.end_date # NoDate => row.payment_due_date <= req.end_date)
    /\ (req.status # "" => Collate(row.status) = Collate(req.status))
\* (MatchesStatusOrDates: the variant in which a status, when given, takes
\* the place of the date conditions)
MatchesStatusOrDates(row, companyID, req) ==
    /\ row.company_id = companyID
    /\ row.company_id \in 1 .. companies
    /\ row.business_partner_id \in DOMAIN partners
    /\ IF req.status # "" THEN Collate(row.status) = Collate(req.status)
       ELSE /\ (req.start_date # NoDate
                  => row.payment_due_date >= req.start_date)
            /\ (req.end_date # NoDate
                  => row.payment_due_date <= req.end_date)
\* (MatchesUnprocessedOnly: the variant whose WHERE clause also requires
\* status = 'unprocessed')
MatchesUnprocessedOnly(row, companyID, req) ==
    /\ row.company_id = companyID
    /\ row.status = InvoiceStatusUnprocessed
    /\ (req.start_date # NoDate => row.payment_due_date >= req.start_date)
    /\ (req.end_date # NoDate => row.payment_due_date <= req.end_date)
    /\ (req.status # "" => Collate(row.status) = Collate(req.status))
Matches(row, companyID, req) ==
    /\ row.company_id = companyID
    /\ row.company_id \in 1 .. companies
    /\ row.business_partner_id \in DOMAIN partners
    /\ (req.start_date # NoDate => row.payment_due_date >= req.start_date)
    /\ (req.end_date # NoDate => row.payment_due_date <= req.end_date)
    /\ (req.status # "" => Collate(row.status) = Collate(req.status))

\* ORDER BY payment_due_date DESC leaves the order of rows with the same
\* due date to the server: every order of the ids that is descending in
\* payment_due_date is a possible result order
\* (SortedOrdersAscending: the variant with ORDER BY ... ASC)
SortedOrdersAscending(ids) ==
    {ord \in [1 .. Cardinality(ids) -> ids] :
        /\ \A i, j \in 1 .. Cardinality(ids) : i # j => ord[i] # ord[j]
        /\ \A i, j \in 1 .. Cardinality(ids) :
              i < j => invoices[ord[i]].payment_due_date
                        <= invoices[ord[j]].payment_due_date}
SortedOrders(ids) ==
    {ord \in [1 .. Cardinality(ids) -> ids] :
        /\ \A i, j \in 1 .. Cardinality(ids) : i # j => ord[i] # ord[j]
        /\ \A i, j \in 1 .. Cardinality(ids) :
              i < j => invoices[ord[i]].payment_due_date
                        >= invoices[ord[j]].payment_due_date}

\* LIMIT ? [OFFSET ?] applied to the ordered ids
\* (PaginateFromPage: the variant whose offset is page * limit)
PaginateFromPage(ord, page, limit) ==
    IF limit > 0
    THEN LET offset == IF page > 1 THEN page * limit ELSE 0
         IN  SubSeq(ord, offset + 1, Min(Len(ord), offset + limit))
    ELSE ord
Paginate(ord, page, limit) ==
    IF limit > 0
    THEN LET offset == IF page > 1 THEN (page - 1) * limit ELSE 0
         IN  SubSeq(ord, offset + 1, Min(Len(ord), offset + limit))
    ELSE ord

MatchingIds(companyID, req) ==
    {id \in DOMAIN invoices : Matches(invoices[id], companyID, req)}

\* ord is the order the server returns the matching rows in
GetInvoicesByCompanyID(companyID, req, ord, failed) ==
    IF failed
    THEN [val |-> <<>>, err |-> Wrap("failed to get invoices", DBError)]
    ELSE LET ids == Paginate(ord, req.page, req.limit)
         IN  [val |-> [k \in 1 .. Len(ids) |-> invoices[ids[k]]],
              err |-> NoError]

\* UPDATE invoices SET status = ? WHERE id = ?; the ENUM column of a
\* strict-mode server rejects a value outside the enumeration
\* (RepoUpdateInvoiceStatusWaivingFee: the variant whose UPDATE also clears
\* the fee and the tax of the row)
RepoUpdateInvoiceStatusWaivingFee(id, status) ==
    IF Collate(status) \notin InvoiceStatuses
    THEN [store |-> invoices,
          err |-> Wrap("failed to update invoice status", DBError)]
    ELSE [store |-> [k \in DOMAIN invoices |->
                        IF k = id
                        THEN [invoices[k] EXCEPT
                                 !.status = Collate(status),
                                 !.fee = 0,
                                 !.consumption_tax = 0,
                                 !.invoice_amount = invoices[k].payment_amount]
                        ELSE invoices[k]],
          err |-> NoError]
\* (RepoUpdateInvoiceStatusUnchecked: the variant whose column takes every
\* string)
RepoUpdateInvoiceStatusUnchecked(id, status) ==
    [store |-> [k \in DOMAIN invoices |->
                   IF k = id THEN [invoices[k] EXCEPT !.status = status]
                   ELSE invoices[k]],
     err |-> NoError]
\* (RepoUpdateInvoiceStatusDeleting: the variant that deletes the newest
\* invoice instead of failing when the status is outside the enumeration)
RepoUpdateInvoiceStatusDeleting(id, status) ==
    IF Collate(status) \notin InvoiceStatuses
    THEN [store |-> IF id = Len(invoices) /\ id > 0
                    THEN SubSeq(invoices, 1, id - 1) ELSE invoices,
          err |-> NoError]
    ELSE [store |-> [k \in DOMAIN invoices |->
                        IF k = id
                        THEN [invoices[k] EXCEPT !.status = Collate(status)]
                        ELSE invoices[k]],
          err |-> NoError]
RepoUpdateInvoiceStatus(id, status) ==
    IF Collate(status) \notin InvoiceStatuses
    THEN [store |-> invoices,
          err |-> Wrap("failed to update invoice status", DBError)]
    ELSE [store |-> [k \in DOMAIN invoices |->
                        IF k = id
                        THEN [invoices[k] EXCEPT !.status = Collate(status)]
                        ELSE invoices[k]],
          err |-> NoError]

\* ------------------------------------------------ service (InvoiceService)

\* the invoice struct CreateInvoice fills in before it calls the repository
\* (NewInvoiceOfPartnerId: the variant that writes the partner's id into
\* CompanyID)
NewInvoiceOfPartnerId(user, req, t) ==
    LET fee == MulPct(req.payment_amount, FeeRatePct)
        tax == MulPct(fee, ConsumptionTaxRatePct)
    IN  [company_id |-> req.business_partner_id,
         business_partner_id |-> req.business_partner_id,
         issue_date |-> t,
         payment_amount |-> req.payment_amount,
         fee_rate |-> FeeRatePct,
         consumption_tax_rate |-> ConsumptionTaxRatePct,
         payment_due_date |-> req.payment_due_date,
         status |-> InvoiceStatusUnprocessed,
         fee |-> fee,
         consumption_tax |-> tax,
         invoice_amount |-> Round2(req.payment_amount + fee + tax)]
\* (NewInvoiceStatusFromRequest: the variant that takes the status from a
\* "status" member of the request body when there is one)
NewInvoiceStatusFromRequest(user, req, t) ==
    LET fee == MulPct(req.payment_amount, FeeRatePct)
        tax == MulPct(fee, ConsumptionTaxRatePct)
    IN  [company_id |-> user.company_id,
         business_partner_id |-> req.business_partner_id,
         issue_date |-> t,
         payment_amount |-> req.payment_amount,
         fee_rate |-> FeeRatePct,
         consumption_tax_rate |-> ConsumptionTaxRatePct,
         payment_due_date |-> req.payment_due_date,
         status |-> IF "status" \in DOMAIN req THEN req.status
                    ELSE InvoiceStatusUnprocessed,
         fee |-> fee,
         consumption_tax |-> tax,
         invoice_amount |-> Round2(req.payment_amount + fee + tax)]
NewInvoice(user, req, t) ==
    LET fee == MulPct(req.payment_amount, FeeRatePct)
        tax == MulPct(fee, ConsumptionTaxRatePct)
    IN  [company_id |-> user.company_id,
         business_partner_id |-> req.business_partner_id,
         issue_date |-> t,
         payment_amount |-> req.payment_amount,
         fee_rate |-> FeeRatePct,
         consumption_tax_rate |-> ConsumptionTaxRatePct,
         payment_due_date |-> req.payment_due_date,
         status |-> InvoiceStatusUnprocessed,
         fee |-> fee,
         consumption_tax |-> tax,
         invoice_amount |-> Round2(req.payment_amount + fee + tax)]

\* the ownership test of CreateInvoice on the partner the request names
PartnerCheckSkipped(partner, user) == FALSE
PartnerOfOtherCompany(partner, user) == partner.company_id # user.company_id

\* t is the reading of time.Now() for IssueDate; fault names the database
\* call that fails.  store is the invoices table after the call, built the
\* in-memory invoice (<<>> when the call returned before building it).
CreateInvoice(userID, req, t, fault) ==
    LET u == GetUserByID(userID, fault = "get_user")
    IN  IF u.err # NoError
        THEN [val |-> <<>>, err |-> Wrap("user not found", u.err),
              store |-> invoices, built |-> <<>>]
        ELSE
    LET user == u.val[1]
        p == GetBusinessPartnerByID(req.business_partner_id,
                                    fault = "get_partner")
    IN  IF p.err # NoError
        THEN [val |-> <<>>, err |-> Wrap("business partner not found", p.err),
              store |-> invoices, built |-> <<>>]
        ELSE IF PartnerOfOtherCompany(p.val[1], user)
        THEN [val |-> <<>>,
              err |-> Errorf("business partner does not belong to your company"),
              store |-> invoices, built |-> <<>>]
        ELSE
    LET invoice == NewInvoice(user, req, t)
        c == RepoCreateInvoice(invoice, fault = "insert")
    IN  IF c.err # NoError
        THEN [val |-> <<>>, err |-> Wrap("failed to create invoice", c.err),
              store |-> c.store, built |-> <<invoice>>]
        ELSE
    LET g == RepoGetInvoiceByID(c.store, c.id, fault = "reread")
    IN  IF g.err # NoError
        THEN [val |-> <<>>, err |-> Wrap("failed to get created invoice", g.err),
              store |-> c.store, built |-> <<invoice>>]
        ELSE [val |-> g.val, err |-> NoError,
              store |-> c.store, built |-> <<invoice>>]

\* the pagination defaults GetInvoices writes into the request
\* (NormalizePaginationUncapped: the variant without the upper limit)
NormalizePaginationUncapped(req) ==
    LET page == IF req.page < 1 THEN DefaultPage ELSE req.page
        lim1 == IF req.limit < 1 THEN DefaultLimit ELSE req.limit
    IN  [req EXCEPT !.page = page, !.limit = lim1]
NormalizePagination(req) ==
    LET page == IF req.page < 1 THEN DefaultPage ELSE req.page
        lim1 == IF req.limit < 1 THEN DefaultLimit ELSE req.limit
        lim2 == IF lim1 > MaxLimit THEN MaxLimit ELSE lim1
    IN  [req EXCEPT !.page = page, !.limit = lim2]

\* the company the listing of userID is scoped to
ListCompany(userID, fault) ==
    LET u == GetUserByID(userID, fault = "get_user")
    IN  IF u.err # NoError THEN 0 ELSE u.val[1].company_id

\* repoReq is the request as the repository received it (<<>>: not called)
GetInvoices(userID, req, ord, fault) ==
    LET u == GetUserByID(userID, fault = "get_user")
    IN  IF u.err # NoError
        THEN [val |-> <<>>, err |-> Wrap("user not found", u.err),
              repoReq |-> <<>>]
        ELSE
    LET nreq == NormalizePagination(req)
        r == GetInvoicesByCompanyID(u.val[1].company_id, nreq, ord,
                                    fault = "query")
    IN  IF r.err # NoError
        THEN [val |-> <<>>, err |-> Wrap("failed to get invoices", r.err),
              repoReq |-> <<nreq>>]
        ELSE [val |-> r.val, err |-> NoError, repoReq |-> <<nreq>>]

\* (GetInvoiceByIDAnyCompany: the variant without the ownership test)
GetInvoiceByIDAnyCompany(userID, invoiceID, fault) ==
    LET u == GetUserByID(userID, fault = "get_user")
    IN  IF u.err # NoError
        THEN [val |-> <<>>, err |-> Wrap("user not found", u.err)]
        ELSE
    LET g == RepoGetInvoiceByID(invoices, invoiceID, fault = "query")
    IN  IF g.err # NoError
        THEN [val |-> <<>>, err |-> Wrap("invoice not found", g.err)]
        ELSE [val |-> g.val, err |-> NoError]
GetInvoiceByID(userID, invoiceID, fault) ==
    LET u == GetUserByID(userID, fault = "get_user")
    IN  IF u.err # NoError
        THEN [val |-> <<>>, err |-> Wrap("user not found", u.err)]
        ELSE
    LET g == RepoGetInvoiceByID(invoices, invoiceID, fault = "query")
    IN  IF g.err # NoError
        THEN [val |-> <<>>, err |-> Wrap("invoice not found", g.err)]
        ELSE IF g.val[1].company_id # u.val[1].company_id
        THEN [val |-> <<>>, err |-> Errorf("invoice not found")]
        ELSE [val |-> g.val, err |-> NoError]

GetBusinessPartners(userID, ord, fault) ==
    LET u == GetUserByID(userID, fault = "get_user")
    IN  IF u.err # NoError
        THEN [val |-> <<>>, err |-> Wrap("user not found", u.err)]
        ELSE
    LET r == GetBusinessPartnersByCompanyID(u.val[1].company_id, ord,
                                            fault = "query")
    IN  IF r.err # NoError
        THEN [val |-> <<>>, err |-> Wrap("failed to get business partners", r.err)]
        ELSE [val |-> r.val, err |-> NoError]

\* ------------------------------------------------------ handlers (Handler)
Response(op, status, error, message, data) ==
    [op |-> op, status |-> status, error |-> error, message |-> message,
     data |-> data]

BindingError == Errorf("request body failed binding validation")

\* models.ValidatePaymentDueDate: dueDate.Before(time.Now())
ValidatePaymentDueDate(dueDate, t) ==
    IF dueDate < t THEN Errorf("payment due date must be in the future")
    ELSE NoError

\* ShouldBindJSON of CreateInvoiceRequest: the validator reports, field by
\* field, the first tag of `binding` that the field fails
\* (BindWithoutGt: the variant whose PaymentAmount carries `required` only)
BindWithoutGt(req) ==
    (IF req.business_partner_id = 0
     THEN <<"BusinessPartnerID failed on the 'required' tag">> ELSE <<>>)
    \o (IF req.payment_amount = 0
        THEN <<"PaymentAmount failed on the 'required' tag">> ELSE <<>>)
    \o (IF req.payment_due_date = NoDate
        THEN <<"PaymentDueDate failed on the 'required' tag">> ELSE <<>>)
BindCreateInvoiceRequest(req) ==
    (IF req.business_partner_id = 0
     THEN <<"BusinessPartnerID failed on the 'required' tag">> ELSE <<>>)
    \o (IF req.payment_amount = 0
        THEN <<"PaymentAmount failed on the 'required' tag">>
        ELSE IF ~(req.payment_amount > 0)
        THEN <<"PaymentAmount failed on the 'gt' tag">> ELSE <<>>)
    \o (IF req.payment_due_date = NoDate
        THEN <<"PaymentDueDate failed on the 'required' tag">> ELSE <<>>)

\* Handler.createInvoice: the response, the invoices table after the
\* request, the invoice the service built and the clock after the request.
\* Validate reads the clock at t0; the service reads it again for IssueDate
\* at t, after time may have passed.
createInvoiceOutcome(userID, req, t0, t, fault) ==
    IF BindCreateInvoiceRequest(req) # NoError
    THEN [resp |-> Response("createInvoice", StatusBadRequest,
                     "validation_error", BindCreateInvoiceRequest(req), <<>>),
          store |-> invoices, built |-> <<>>, clock |-> t0]
    ELSE IF ValidatePaymentDueDate(req.payment_due_date, t0) # NoError
    THEN [resp |-> Response("createInvoice", StatusBadRequest,
                     "validation_error",
                     ValidatePaymentDueDate(req.payment_due_date, t0), <<>>),
          store |-> invoices, built |-> <<>>, clock |-> t0]
    ELSE LET r == CreateInvoice(userID, req, t, fault)
         IN  [resp |-> IF r.err # NoError
                       THEN Response("createInvoice", StatusInternalServerError,
                                     "invoice_creation_failed", r.err, <<>>)
                       ELSE Response("createInvoice", StatusOK, "", NoError,
                                     r.val),
              store |-> r.store, built |-> r.built,
              clock |-> IF r.built = <<>> THEN t0 ELSE t]

\* the GetInvoicesRequest the handler builds from the query string
ParseGetInvoicesRequest(startP, endP, status, pageP, limitP) ==
    [start_date |-> IF startP.kind = "int" THEN startP.val ELSE NoDate,
     end_date |-> IF endP.kind = "int" THEN endP.val ELSE NoDate,
     status |-> status,
     page |-> IF pageP.kind = "absent" THEN DefaultPage
              ELSE IF pageP.kind = "int" /\ pageP.val > 0 THEN pageP.val
              ELSE 0,
     limit |-> IF limitP.kind = "absent" THEN DefaultLimit
               ELSE IF limitP.kind = "int" /\ limitP.val > 0 THEN limitP.val
               ELSE 0]

\* the ids the query of a listing request selects, before ORDER BY and LIMIT
ListedIds(userID, startP, endP, status, pageP, limitP, fault) ==
    MatchingIds(ListCompany(userID, fault),
                NormalizePagination(ParseGetInvoicesRequest(
                    startP, endP, status, pageP, limitP)))

\* Handler.getInvoices: the response and the request the repository received
getInvoicesOutcome(userID, startP, endP, status, pageP, limitP, ord, fault) ==
    IF startP.kind = "malformed"
    THEN [resp |-> Response("getInvoices", StatusBadRequest, "validation_error",
                            Errorf("Invalid start_date format"), <<>>),
          repoReq |-> <<>>]
    ELSE IF endP.kind = "malformed"
    THEN [resp |-> Response("getInvoices", StatusBadRequest, "validation_error",
                            Errorf("Invalid end_date format"), <<>>),
          repoReq |-> <<>>]
    ELSE LET r == GetInvoices(userID,
                      ParseGetInvoicesRequest(startP, endP, status,
                                              pageP, limitP), ord, fault)
         IN  [resp |-> IF r.err # NoError
                       THEN Response("getInvoices", StatusInternalServerError,
                                     "invoice_retrieval_failed", r.err, <<>>)
                       ELSE Response("getInvoices", StatusOK, "", NoError,
                                     r.val),
              repoReq |-> r.repoReq]

\* Handler.getInvoiceByID: the response
getInvoiceByIDResponse(userID, idP, fault) ==
    IF idP.kind # "int"
    THEN Response("getInvoiceByID", StatusBadRequest, "invalid_id",
                  Errorf("Invalid invoice ID"), <<>>)
    ELSE LET r == GetInvoiceByID(userID, idP.val, fault)
         IN  IF r.err # NoError
             THEN Response("getInvoiceByID", StatusNotFound,
                           "invoice_not_found", r.err, <<>>)
             ELSE Response("getInvoiceByID", StatusOK, "", NoError, r.val)

\* Handler.getBusinessPartners
getBusinessPartnersResponse(userID, ord, fault) ==
    LET r == GetBusinessPartners(userID, ord, fault)
    IN  IF r.err # NoError
        THEN Response("getBusinessPartners", StatusInternalServerError,
                      "business_partner_retrieval_failed", r.err, <<>>)
        ELSE Response("getBusinessPartners", StatusOK, "", NoError, r.val)

NoResponse == Response("none", 0, "", NoError, <<>>)
\* no request is being served
Idle == resp = NoResponse

\* middleware.JWTMiddleware: either it aborts the request with a response,
\* or it puts the user id of the token's claims into the context
\* (JWTMiddlewareUnverified: the variant that reads the claims of a token
\* without verifying it)
JWTMiddlewareUnverified(header) ==
    IF header.kind = "missing"
    THEN [abort |-> TRUE, user_id |-> 0,
          resp |-> Response("JWTMiddleware", StatusUnauthorized, "unauthorized",
                            Errorf("Authorization header required"), <<>>)]
    ELSE IF header.kind = "no_bearer"
    THEN [abort |-> TRUE, user_id |-> 0,
          resp |-> Response("JWTMiddleware", StatusUnauthorized, "unauthorized",
                            Errorf("Bearer token required"), <<>>)]
    ELSE [abort |-> FALSE, user_id |-> header.user_id, resp |-> NoResponse]
JWTMiddleware(header) ==
    IF header.kind = "missing"
    THEN [abort |-> TRUE, user_id |-> 0,
          resp |-> Response("JWTMiddleware", StatusUnauthorized, "unauthorized",
                            Errorf("Authorization header required"), <<>>)]
    ELSE IF header.kind = "no_bearer"
    THEN [abort |-> TRUE, user_id |-> 0,
          resp |-> Response("JWTMiddleware", StatusUnauthorized, "unauthorized",
                            Errorf("Bearer token required"), <<>>)]
    ELSE IF header.kind # "valid"
    THEN [abort |-> TRUE, user_id |-> 0,
          resp |-> Response("JWTMiddleware", StatusUnauthorized, "unauthorized",
                            Errorf("Invalid token"), <<>>)]
    ELSE [abort |-> FALSE, user_id |-> header.user_id, resp |-> NoResponse]

\* the tables of migrations/001_create_tables.sql, empty
Init ==
    /\ companies = 0
    /\ users = <<>>
    /\ partners = <<>>
    /\ invoices = <<>>
    /\ now = 0
    /\ built = <<>>
    /\ repoReq = <<>>
    /\ resp = NoResponse
    /\ calls = <<>>

\* POST /api/auth/register: the company row first, then the user row; the
\* UNIQUE index on users.email rejects a second user with the same email
register(email, wellFormed) ==
    /\ Idle
    /\ UNCHANGED calls
    /\ built' = <<>>
    /\ repoReq' = <<>>
    /\ UNCHANGED <<partners, invoices, now>>
    /\ IF ~wellFormed
       THEN /\ resp' = Response("register", StatusBadRequest,
                                "validation_error", BindingError, <<>>)
            /\ UNCHANGED <<companies, users>>
       ELSE /\ companies' = companies + 1
            /\ IF \E id \in DOMAIN users : users[id].email = email
               THEN /\ resp' = Response("register", StatusInternalServerError,
                            "user_registration_failed",
                            Wrap("failed to create user",
                                 Wrap("failed to create user", DBError)), <<>>)
                    /\ UNCHANGED users
               ELSE /\ users' = Append(users, [company_id |-> companies + 1,
                                               email |-> email])
                    /\ resp' = Response("register", StatusCreated, "",
                                        NoError, <<>>)

\* a request to a route of the /api group that JWTMiddleware aborts: the
\* handler of the route does not run
unauthorized(header) ==
    /\ Idle
    /\ UNCHANGED calls
    /\ JWTMiddleware(header).abort
    /\ resp' = JWTMiddleware(header).resp
    /\ built' = <<>>
    /\ repoReq' = <<>>
    /\ UNCHANGED <<companies, users, partners, invoices, now>>

\* POST /api/companies
createCompany(wellFormed) ==
    /\ Idle
    /\ UNCHANGED calls
    /\ built' = <<>>
    /\ repoReq' = <<>>
    /\ UNCHANGED <<users, partners, invoices, now>>
    /\ IF ~wellFormed
       THEN /\ resp' = Response("createCompany", StatusBadRequest,
                                "validation_error", BindingError, <<>>)
            /\ UNCHANGED companies
       ELSE /\ companies' = companies + 1
            /\ resp' = Response("createCompany", StatusCreated, "",
                                NoError, <<>>)

\* BusinessPartnerCreateRequest has no company_id: the binding drops a
\* company_id member of the body and ToBusinessPartner leaves CompanyID zero
ToBusinessPartner(body) == [company_id |-> 0]

\* InvoiceService.CreateBusinessPartner: partner.CompanyID = user.CompanyID
\* (SetPartnerCompanySkipped: the variant without the assignment)
SetPartnerCompanySkipped(user, partner) == partner
SetPartnerCompany(user, partner) ==
    [partner EXCEPT !.company_id = user.company_id]

\* POST /api/business-partners: the service overwrites partner.CompanyID
\* with the company of the acting user; body is the company_id member the
\* client put into the request body (0: none)
createBusinessPartner(userID, body, wellFormed, fault) ==
    /\ Idle
    /\ UNCHANGED calls
    /\ built' = <<>>
    /\ repoReq' = <<>>
    /\ UNCHANGED <<companies, users, invoices, now>>
    /\ LET u == GetUserByID(userID, fault = "get_user")
       IN  IF ~wellFormed
           THEN /\ resp' = Response("createBusinessPartner", StatusBadRequest,
                                    "validation_error", BindingError, <<>>)
                /\ UNCHANGED partners
           ELSE IF u.err # NoError
           THEN /\ resp' = Response("createBusinessPartner",
                                    StatusInternalServerError,
                                    "business_partner_creation_failed",
                                    Wrap("user not found", u.err), <<>>)
                /\ UNCHANGED partners
           ELSE IF fault = "insert"
           THEN /\ resp' = Response("createBusinessPartner",
                            StatusInternalServerError,
                            "business_partner_creation_failed",
                            Wrap("failed to create business partner",
                                 Wrap("failed to create business partner",
                                      DBError)), <<>>)
                /\ UNCHANGED partners
           ELSE /\ partners' = Append(partners,
                        SetPartnerCompany(u.val[1], ToBusinessPartner(body)))
                /\ resp' = Response("createBusinessPartner", StatusCreated,
                                    "", NoError, <<>>)

\* POST /api/invoices
createInvoice(userID, req, t, fault) ==
    /\ Idle
    /\ UNCHANGED calls
    /\ LET o == createInvoiceOutcome(userID, req, now, t, fault)
       IN  /\ resp' = o.resp
           /\ invoices' = o.store
           /\ built' = o.built
           /\ now' = o.clock
    /\ repoReq' = <<>>
    /\ UNCHANGED <<companies, users, partners>>

\* GET /api/invoices
getInvoices(userID, startP, endP, status, pageP, limitP, fault) ==
    /\ Idle
    /\ UNCHANGED calls
    /\ \E ord \in SortedOrders(ListedIds(userID, startP, endP, status,
                                         pageP, limitP, fault)) :
         LET o == getInvoicesOutcome(userID, startP, endP, status, pageP,
                                     limitP, ord, fault)
         IN  /\ resp' = o.resp
             /\ repoReq' = o.repoReq
    /\ built' = <<>>
    /\ UNCHANGED <<companies, users, partners, invoices, now>>

\* GET /api/invoices/:id
getInvoiceByID(userID, idP, fault) ==
    /\ Idle
    /\ UNCHANGED calls
    /\ resp' = getInvoiceByIDResponse(userID, idP, fault)
    /\ built' = <<>>
    /\ repoReq' = <<>>
    /\ UNCHANGED <<companies, users, partners, invoices, now>>

\* GET /api/business-partners
getBusinessPartners(userID, fault) ==
    /\ Idle
    /\ UNCHANGED calls
    /\ \E ord \in Orders(PartnersOfCompany(ListCompany(userID, fault))) :
            resp' = getBusinessPartnersResponse(userID, ord, fault)
    /\ built' = <<>>
    /\ repoReq' = <<>>
    /\ UNCHANGED <<companies, users, partners, invoices, now>>

\* Repository.UpdateInvoiceStatus, called by the payment process
UpdateInvoiceStatus(id, status) ==
    LET r == RepoUpdateInvoiceStatus(id, status)
    IN  /\ Idle
        /\ UNCHANGED calls
        /\ invoices' = r.store
        /\ built' = <<>>
        /\ repoReq' = <<>>
        /\ resp' = Response("UpdateInvoiceStatus", 0, "", r.err, <<>>)
        /\ UNCHANGED <<companies, users, partners, now>>

\* the response is written to the client and the locals of the request
\* (the built invoice, the normalised list request) are dropped
Respond ==
    /\ ~Idle
    /\ UNCHANGED calls
    /\ resp' = NoResponse
    /\ built' = <<>>
    /\ repoReq' = <<>>
    /\ UNCHANGED <<companies, users, partners, invoices, now>>

\* the wall clock advances
Tick ==
    /\ Idle
    /\ UNCHANGED calls
    /\ now' = now + 1
    /\ UNCHANGED <<companies, users, partners, invoices, built, repoReq, resp>>

\* the company_id members a client can put into the body of
\* POST /api/business-partners (0: none)
PartnerBodies == {[company_id |-> c] : c \in 0 .. MaxCompanies}

CreateInvoiceRequests ==
    [business_partner_id : PartnerIds, payment_amount : PaymentAmounts,
     payment_due_date : DueDates]

\* the tables and the clock stay inside the bounds
Bounded ==
    /\ companies' <= MaxCompanies
    /\ Len(partners') <= MaxPartners
    /\ Len(invoices') <= MaxInvoices
    /\ now' <= MaxTime

Next ==
    \/ \E email \in Emails, wellFormed \in BOOLEAN :
            register(email, wellFormed) /\ Bounded
    \/ \E header \in AuthHeaders : unauthorized(header)
    \/ \E header \in AuthHeaders :
            /\ ~JWTMiddleware(header).abort
            /\ \E wellFormed \in BOOLEAN : createCompany(wellFormed) /\ Bounded
    \/ \E header \in AuthHeaders :
            /\ ~JWTMiddleware(header).abort
            /\ \E body \in PartnerBodies, wellFormed \in BOOLEAN,
                  fault \in {"none", "get_user", "insert"} :
                    createBusinessPartner(JWTMiddleware(header).user_id,
                                          body, wellFormed, fault) /\ Bounded
    \/ \E header \in AuthHeaders :
            /\ ~JWTMiddleware(header).abort
            /\ \E req \in CreateInvoiceRequests, t \in {now, now + 1},
                  fault \in {"none", "get_user", "get_partner", "insert",
                             "reread"} :
                    createInvoice(JWTMiddleware(header).user_id, req, t, fault)
                        /\ Bounded
    \/ \E header \in AuthHeaders :
            /\ ~JWTMiddleware(header).abort
            /\ \E startP \in DateParams, endP \in {Absent},
                  status \in FilterStatuses, pageP \in PageParams,
                  limitP \in LimitParams,
                  fault \in {"none", "get_user", "query"} :
                    getInvoices(JWTMiddleware(header).user_id, startP, endP,
                                status, pageP, limitP, fault)
    \/ \E header \in AuthHeaders :
            /\ ~JWTMiddleware(header).abort
            /\ \E idP \in IdParams, fault \in {"none", "get_user", "query"} :
                    getInvoiceByID(JWTMiddleware(header).user_id, idP, fault)
    \/ \E header \in AuthHeaders :
            /\ ~JWTMiddleware(header).abort
            /\ \E fault \in {"none", "get_user", "query"} :
                    getBusinessPartners(JWTMiddleware(header).user_id, fault)
    \/ \E id \in InvoiceIds, status \in NewStatuses :
            UpdateInvoiceStatus(id, status)
    \/ Respond
    \/ Tick /\ Bounded

Spec == Init /\ [][Next]_vars

\* ------------------------------------------------------------------------
\* Listing.  The store after two registrations and one business partner for
\* each company; from there invoices are created by well-formed requests and
\* paid, and the listing is requested with every kind of query parameter.
Registered ==
    /\ companies = 2
    /\ users = <<[company_id |-> 1, email |-> "alice@example.com"],
                 [company_id |-> 2, email |-> "bob@example.com"]>>
    /\ partners = <<[company_id |-> 1], [company_id |-> 2]>>
    /\ invoices = <<>>
    /\ now = 0
    /\ built = <<>>
    /\ repoReq = <<>>
    /\ resp = NoResponse
    /\ calls = <<>>

ListStartParams == {Absent, Malformed, Num(TicksPerDay)}
ListEndParams == {Absent, Malformed, Num(0)}
ListStatuses == {"", "paid", "PAID", "cancelled"}
ListPageParams == {Absent, Malformed, Num(2)}
ListLimitParams == {Absent, Num(0), Num(1), Num(500)}

NextList ==
    \/ \E userID \in UserIds, bp \in DOMAIN partners, due \in DueDates :
            /\ createInvoice(userID,
                   [business_partner_id |-> bp, payment_amount |-> CentUnits,
                    payment_due_date |-> due], now, "none")
            /\ Len(invoices') <= MaxListed
    \/ \E id \in 1 .. MaxListed : UpdateInvoiceStatus(id, "paid")
    \/ \E userID \in UserIds, startP \in ListStartParams,
          endP \in ListEndParams, status \in ListStatuses,
          pageP \in ListPageParams, limitP \in ListLimitParams,
          fault \in {"none", "get_user", "query"} :
            getInvoices(userID, startP, endP, status, pageP, limitP, fault)
    \/ Respond

SpecList == Registered /\ [][NextList]_vars

\* ------------------------------------------------------------------------
\* Calculation.  From the same store, the first invoice is created with
\* each payment amount of CalcAmounts: every amount of 0.01 .. MaxCents/100
\* yen and the amounts the tests name.
CalcAmounts ==
    {c * CentUnits : c \in 1 .. MaxCents} \cup {Yen(1), Yen(10000), Yen(12345)}

NextCalc ==
    \/ \E userID \in UserIds, bp \in DOMAIN partners,
          amount \in CalcAmounts, t \in {now, now + 1} :
            /\ createInvoice(userID,
                   [business_partner_id |-> bp, payment_amount |-> amount,
                    payment_due_date |-> MaxTime + 1], t, "none")
            /\ invoices = <<>>
    \/ Respond

SpecCalc == Registered /\ [][NextCalc]_vars

\* ------------------------------------------------------------------------
\* Concurrency.  gin serves every request on its own goroutine: the locals
\* of createInvoice and of InvoiceService.CreateInvoice belong to the call,
\* the tables are shared, and every statement sent to the database is one
\* atomic step.  calls[i].pc is the position of call i:
\*   "bound"    the handler bound and validated the request
\*   "user"     GetUserByID returned
\*   "built"    GetBusinessPartnerByID returned and the invoice is built
\*   "inserted" the INSERT returned and invoice.ID is set
\*   "done"     the response is written

\* the identifier CreateInvoice reads back after the INSERT: the ID field
\* of its own invoice (CreatedInvoiceIdLatest: the variant that reads back
\* the newest row of the table)
CreatedInvoiceIdLatest(call, store) == Len(store)
CreatedInvoiceId(call, store) == call.id

Call(pc, userID, req, user, invoice, id, response) ==
    [pc |-> pc, user_id |-> userID, req |-> req, user |-> user,
     invoice |-> invoice, id |-> id, resp |-> response]

\* the call ends with the 500 response of the handler
Failed(call, err) ==
    [call EXCEPT !.pc = "done",
                 !.resp = Response("createInvoice", StatusInternalServerError,
                                   "invoice_creation_failed", err, <<>>)]

\* createInvoice up to the call of the service
acceptCreateInvoice(userID, req) ==
    /\ calls' = Append(calls,
         IF BindCreateInvoiceRequest(req) # NoError
         THEN Call("done", userID, req, <<>>, <<>>, 0,
                   Response("createInvoice", StatusBadRequest,
                            "validation_error", BindCreateInvoiceRequest(req),
                            <<>>))
         ELSE IF ValidatePaymentDueDate(req.payment_due_date, now) # NoError
         THEN Call("done", userID, req, <<>>, <<>>, 0,
                   Response("createInvoice", StatusBadRequest,
                            "validation_error",
                            ValidatePaymentDueDate(req.payment_due_date, now),
                            <<>>))
         ELSE Call("bound", userID, req, <<>>, <<>>, 0, NoResponse))
    /\ UNCHANGED <<companies, users, partners, invoices, now, built, repoReq,
                   resp>>

\* s.repo.GetUserByID(userID)
getUserStep(i) ==
    /\ i \in DOMAIN calls
    /\ calls[i].pc = "bound"
    /\ LET u == GetUserByID(calls[i].user_id, FALSE)
       IN  calls' = [calls EXCEPT ![i] =
                IF u.err # NoError
                THEN Failed(@, Wrap("user not found", u.err))
                ELSE [@ EXCEPT !.pc = "user", !.user = u.val]]
    /\ UNCHANGED <<companies, users, partners, invoices, now, built, repoReq,
                   resp>>

\* s.repo.GetBusinessPartnerByID, the ownership test and the calculation
getPartnerStep(i) ==
    /\ i \in DOMAIN calls
    /\ calls[i].pc = "user"
    /\ LET p == GetBusinessPartnerByID(calls[i].req.business_partner_id, FALSE)
       IN  calls' = [calls EXCEPT ![i] =
                IF p.err # NoError
                THEN Failed(@, Wrap("business partner not found", p.err))
                ELSE IF PartnerOfOtherCompany(p.val[1], @.user[1])
                THEN Failed(@, Errorf(
                         "business partner does not belong to your company"))
                ELSE [@ EXCEPT !.pc = "built",
                               !.invoice = <<NewInvoice(calls[i].user[1],
                                                        calls[i].req, now)>>]]
    /\ UNCHANGED <<companies, users, partners, invoices, now, built, repoReq,
                   resp>>

\* s.repo.CreateInvoice(invoice): the INSERT and LastInsertId
insertStep(i) ==
    /\ i \in DOMAIN calls
    /\ calls[i].pc = "built"
    /\ LET c == RepoCreateInvoice(calls[i].invoice[1], FALSE)
       IN  /\ invoices' = c.store
           /\ calls' = [calls EXCEPT ![i] =
                IF c.err # NoError
                THEN Failed(@, Wrap("failed to create invoice", c.err))
                ELSE [@ EXCEPT !.pc = "inserted", !.id = c.id]]
    /\ UNCHANGED <<companies, users, partners, now, built, repoReq, resp>>

\* s.repo.GetInvoiceByID(invoice.ID) and the response of the handler
rereadStep(i) ==
    /\ i \in DOMAIN calls
    /\ calls[i].pc = "inserted"
    /\ LET g == RepoGetInvoiceByID(invoices,
                                   CreatedInvoiceId(calls[i], invoices), FALSE)
       IN  calls' = [calls EXCEPT ![i] =
                IF g.err # NoError
                THEN Failed(@, Wrap("failed to get created invoice", g.err))
                ELSE [@ EXCEPT !.pc = "done",
                               !.resp = Response("createInvoice", StatusOK, "",
                                                 NoError, g.val)]]
    /\ UNCHANGED <<companies, users, partners, invoices, now, built, repoReq,
                   resp>>

\* the amounts of the concurrent requests; the test posts a different
\* amount from every goroutine
ConcurrentAmounts == {Yen(1), Yen(10000)}

\* the store after two registrations, one business partner of the second
\* company and two of the first
ConcurrentStart ==
    /\ companies = 2
    /\ users = <<[company_id |-> 1, email |-> "alice@example.com"],
                 [company_id |-> 2, email |-> "bob@example.com"]>>
    /\ partners = <<[company_id |-> 1], [company_id |-> 2], [company_id |-> 1]>>
    /\ invoices = <<>>
    /\ now = 0
    /\ built = <<>>
    /\ repoReq = <<>>
    /\ resp = NoResponse
    /\ calls = <<>>

\* every user posts well-formed requests for the partners of their company,
\* due after the last instant of the clock
NextConc ==
    \/ \E userID \in UserIds, bp \in DOMAIN partners,
          amount \in ConcurrentAmounts :
            /\ Len(calls) < MaxCalls
            /\ partners[bp].company_id = users[userID].company_id
            /\ acceptCreateInvoice(userID,
                   [business_partner_id |-> bp, payment_amount |-> amount,
                    payment_due_date |-> MaxTime + 1])
    \/ \E i \in 1 .. MaxCalls : getUserStep(i)
    \/ \E i \in 1 .. MaxCalls : getPartnerStep(i)
    \/ \E i \in 1 .. MaxCalls : insertStep(i)
    \/ \E i \in 1 .. MaxCalls : rereadStep(i)
    \/ Tick /\ now' <= MaxTime

SpecConc == ConcurrentStart /\ [][NextConc]_vars

\* ------------------------------------------------------------------------
\* Stored invoices.  From the store of two companies, invoices are created
\* with two payment amounts, their status is updated to every value, and
\* they are read back one at a time and as a listing.
StoredAmounts == {CentUnits, Yen(12345)}

NextStored ==
    \/ \E userID \in UserIds, bp \in DOMAIN partners, amount \in StoredAmounts :
            /\ createInvoice(userID,
                   [business_partner_id |-> bp, payment_amount |-> amount,
                    payment_due_date |-> MaxTime + 1], now, "none")
            /\ Len(invoices') <= MaxListed
    \/ \E id \in 1 .. MaxListed, status \in InvoiceStatuses \cup NewStatuses :
            UpdateInvoiceStatus(id, status)
    \/ \E userID \in UserIds, id \in 1 .. MaxListed :
            getInvoiceByID(userID, Num(id), "none")
    \/ \E userID \in UserIds :
            getInvoices(userID, Absent, Absent, "", Absent, Absent, "none")
    \/ Respond

SpecStored == Registered /\ [][NextStored]_vars

\* ------------------------------------------------------------------------
\* Business partners.  From the empty tables, users register, create
\* business partners with every company_id member in the body and list the
\* partners of their company.
NextPartners ==
    \/ \E email \in Emails : register(email, TRUE) /\ Bounded
    \/ \E userID \in UserIds, body \in PartnerBodies,
          wellFormed \in BOOLEAN, fault \in {"none", "get_user", "insert"} :
            createBusinessPartner(userID, body, wellFormed, fault) /\ Bounded
    \/ \E userID \in UserIds, fault \in {"none", "get_user", "query"} :
            getBusinessPartners(userID, fault)
    \/ Respond

SpecPartners == Init /\ [][NextPartners]_vars

\* ========================================================================
\* Properties

AllFaults == {"none", "get_user", "get_partner", "insert", "reread", "query"}
OwnPartner(u, bp) ==
    /\ u \in DOMAIN users
    /\ bp \in DOMAIN partners
    /\ partners[bp].company_id = users[u].company_id

\* C1: for every stored user U and stored invoice I of another company,
\* GetInvoiceByID(U, I.id) returns no invoice and the error
\* "invoice not found"; whichever database call fails, it returns no
\* invoice, and the handler answers 404 without data.
CrossCompanyReadNotFound ==
    \A u \in DOMAIN users, i \in DOMAIN invoices :
        invoices[i].company_id # users[u].company_id =>
            /\ GetInvoiceByID(u, i, "none")
                   = [val |-> <<>>, err |-> Errorf("invoice not found")]
            /\ \A fault \in AllFaults :
                  /\ GetInvoiceByID(u, i, fault).val = <<>>
                  /\ GetInvoiceByID(u, i, fault).err # NoError
                  /\ getInvoiceByIDResponse(u, Num(i), fault).status
                         = StatusNotFound
                  /\ getInvoiceByIDResponse(u, Num(i), fault).data = <<>>

\* a read of another company's invoice has just been refused: the bare
\* "invoice not found" is the error of the ownership test only
CrossCompanyReadRefused ==
    /\ resp.op = "getInvoiceByID"
    /\ resp.status = StatusNotFound
    /\ resp.message = Errorf("invoice not found")
    /\ \E i \in DOMAIN invoices, u \in DOMAIN users :
          invoices[i].company_id # users[u].company_id

\* C2: CreateInvoice with a business partner of another company fails with
\* "business partner does not belong to your company" and leaves the
\* invoices table as it was, for every request that names such a partner.
CrossCompanyPartnerRefused ==
    Idle =>
    \A u \in DOMAIN users, req \in CreateInvoiceRequests, t \in {now, now + 1} :
        (/\ req.business_partner_id \in DOMAIN partners
         /\ partners[req.business_partner_id].company_id # users[u].company_id)
        => /\ CreateInvoice(u, req, t, "none").err
                 = Errorf("business partner does not belong to your company")
           /\ CreateInvoice(u, req, t, "none").val = <<>>
           /\ CreateInvoice(u, req, t, "none").store = invoices
           /\ \A fault \in AllFaults :
                 /\ CreateInvoice(u, req, t, fault).err # NoError
                 /\ createInvoiceOutcome(u, req, now, t, fault).store = invoices

\* a create request naming another company's partner has just been refused
PartnerRefused ==
    /\ resp.op = "createInvoice"
    /\ resp.message
           = Errorf("business partner does not belong to your company")
    /\ \E u \in DOMAIN users, bp \in DOMAIN partners :
          partners[bp].company_id # users[u].company_id

\* C3: in every reachable state every stored invoice names a stored
\* business partner whose company_id is the invoice's company_id.
InvoicePartnerSameCompany ==
    \A i \in DOMAIN invoices :
        /\ invoices[i].business_partner_id \in DOMAIN partners
        /\ partners[invoices[i].business_partner_id].company_id
               = invoices[i].company_id

\* an invoice has been created and its status updated while partners of
\* another company exist
PaidInvoiceAmongCompanies ==
    \E i \in DOMAIN invoices, bp \in DOMAIN partners :
        /\ invoices[i].status = "paid"
        /\ partners[bp].company_id # invoices[i].company_id

\* C5: for a stored user U, the response to reading an invoice of another
\* company (status, error code and message) is the response to reading an
\* id that matches no invoice.
ForeignReadLooksAbsent ==
    \A u \in DOMAIN users, i \in DOMAIN invoices,
       j \in InvoiceIds \ DOMAIN invoices :
        invoices[i].company_id # users[u].company_id =>
            getInvoiceByIDResponse(u, Num(i), "none")
                = getInvoiceByIDResponse(u, Num(j), "none")

\* C7: a create-invoice request with payment amount 0 or below is answered
\* 400 validation_error and leaves the invoices table as it was, whatever
\* else it carries; a request with amount 0.01, a partner of the user's own
\* company and a due date after now is answered 200 and adds one invoice
\* of that amount.
AmountMustBePositive ==
    Idle =>
    \A u \in UserIds, req \in CreateInvoiceRequests, t \in {now, now + 1} :
        /\ req.payment_amount <= 0 =>
              \A fault \in AllFaults :
                  /\ createInvoiceOutcome(u, req, now, t, fault).resp.status
                         = StatusBadRequest
                  /\ createInvoiceOutcome(u, req, now, t, fault).resp.error
                         = "validation_error"
                  /\ createInvoiceOutcome(u, req, now, t, fault).store
                         = invoices
        /\ (/\ req.payment_amount = CentUnits
            /\ OwnPartner(u, req.business_partner_id)
            /\ req.payment_due_date > now)
           => LET o == createInvoiceOutcome(u, req, now, t, "none")
              IN  /\ o.resp.status = StatusOK
                  /\ Len(o.resp.data) = 1
                  /\ o.resp.data[1].payment_amount = CentUnits
                  /\ o.store = Append(invoices, o.resp.data[1])

\* an invoice of 0.01 is stored and a request has just been refused for
\* its payment amount
AmountRefusedAfterSmallest ==
    /\ \E i \in DOMAIN invoices : invoices[i].payment_amount = CentUnits
    /\ resp.op = "createInvoice"
    /\ resp.status = StatusBadRequest
    /\ \E k \in DOMAIN resp.message :
          resp.message[k] = "PaymentAmount failed on the 'gt' tag"

\* C8: a create-invoice request of a stored user whose payment due date is
\* the current time or earlier is answered 400 validation_error and stores
\* nothing.
DueDateNotAfterNowRefused ==
    Idle =>
    \A u \in DOMAIN users, req \in CreateInvoiceRequests, t \in {now, now + 1},
       fault \in AllFaults :
        req.payment_due_date <= now =>
            /\ createInvoiceOutcome(u, req, now, t, fault).resp.status
                   = StatusBadRequest
            /\ createInvoiceOutcome(u, req, now, t, fault).store = invoices

\* C9: whenever the create-invoice operation returns an error, the invoices
\* table is what it was before the call.
FailedCreateStoresNothing ==
    Idle =>
    \A u \in UserIds, req \in CreateInvoiceRequests, t \in {now, now + 1},
       fault \in AllFaults :
        /\ (CreateInvoice(u, req, t, fault).err # NoError
               => CreateInvoice(u, req, t, fault).store = invoices)
        /\ (createInvoiceOutcome(u, req, now, t, fault).resp.status # StatusOK
               => createInvoiceOutcome(u, req, now, t, fault).store = invoices)

\* C4: every invoice in the response to GetInvoices of a stored user U has
\* U's company_id, for every combination of start date, end date, status,
\* page and limit and every order the server may return the rows in.
ListingWithinCompany ==
    Idle =>
    \A u \in DOMAIN users, startP \in ListStartParams, endP \in ListEndParams,
       status \in ListStatuses, pageP \in ListPageParams,
       limitP \in ListLimitParams :
        \A ord \in SortedOrders(ListedIds(u, startP, endP, status, pageP,
                                          limitP, "none")) :
            LET o == getInvoicesOutcome(u, startP, endP, status, pageP,
                                        limitP, ord, "none")
            IN  \A k \in DOMAIN o.resp.data :
                    o.resp.data[k].company_id = users[u].company_id

\* a listing has just returned invoices while another company has invoices
ListedBesideOtherCompany ==
    /\ resp.op = "getInvoices"
    /\ resp.status = StatusOK
    /\ resp.data # <<>>
    /\ \E i \in DOMAIN invoices :
          invoices[i].company_id # resp.data[1].company_id

RawPages == {0 - 1, 0, 1, 2, 3}
RawLimits == {0 - 1, 0, 1, 20, 100, 101, 500}
\* the response and the repository request of a listing with page and limit
ListingOutcome(u, startP, endP, status, pageP, limitP, fault) ==
    {getInvoicesOutcome(u, startP, endP, status, pageP, limitP, ord, fault) :
        ord \in SortedOrders(ListedIds(u, startP, endP, status, pageP,
                                       limitP, fault))}

\* C10: GetInvoices turns page < 1 into 1, limit < 1 into 20 and
\* limit > 100 into 100 and leaves other values alone; the request the
\* repository receives has page >= 1 and 1 <= limit <= 100; a listing
\* without page and limit has the outcomes of page=1, limit=20, and a
\* listing with limit=500 has the outcomes of limit=100.
PaginationNormalized ==
    /\ \A page \in RawPages, limit \in RawLimits :
          LET n == NormalizePagination([start_date |-> NoDate,
                       end_date |-> NoDate, status |-> "",
                       page |-> page, limit |-> limit])
          IN  /\ n.page = (IF page < 1 THEN 1 ELSE page)
              /\ n.limit = (IF limit < 1 THEN 20
                            ELSE IF limit > 100 THEN 100 ELSE limit)
    /\ \A k \in DOMAIN repoReq :
          /\ repoReq[k].page >= 1
          /\ repoReq[k].limit >= 1
          /\ repoReq[k].limit <= 100
    /\ Idle =>
       \A u \in UserIds, startP \in ListStartParams, endP \in ListEndParams,
          status \in ListStatuses, fault \in {"none", "get_user", "query"} :
           /\ ListingOutcome(u, startP, endP, status, Absent, Absent, fault)
                  = ListingOutcome(u, startP, endP, status, Num(1), Num(20),
                                   fault)
           /\ \A pageP \in ListPageParams :
                 ListingOutcome(u, startP, endP, status, pageP, Num(500),
                                fault)
                     = ListingOutcome(u, startP, endP, status, pageP,
                                      Num(100), fault)

\* a listing asked with limit=500 has just been served: no other limit of
\* the requests made reaches the repository as 100
OversizedLimitServed ==
    /\ resp.op = "getInvoices"
    /\ resp.status = StatusOK
    /\ resp.data # <<>>
    /\ \E k \in DOMAIN repoReq : repoReq[k].limit = MaxLimit

RepoPages == {0 - 1, 0, 1, 2, 3}
RepoLimits == {0 - 1, 0, 1, 2, 3}
RepoRequests ==
    [start_date : {NoDate, TicksPerDay}, end_date : {NoDate},
     status : {"", "paid"}, page : RepoPages, limit : RepoLimits]
\* the rows of the ordered ids
RowsOf(ord) == [k \in 1 .. Len(ord) |-> invoices[ord[k]]]
\* the elements of seq at the positions (page-1)*limit .. page*limit-1,
\* positions counted from 0
Window(seq, page, limit) ==
    LET idx == {p \in 0 .. Len(seq) - 1 :
                    (page - 1) * limit <= p /\ p <= page * limit - 1}
    IN  [k \in 1 .. Cardinality(idx) |-> seq[(page - 1) * limit + k]]

\* C11 (as stated): GetInvoicesByCompanyID with limit > 0 returns the
\* elements at positions (page-1)*limit .. page*limit-1 of the filtered,
\* ordered sequence, for every page; with limit <= 0 the whole sequence.
RepoPageWindowAnyPage ==
    Idle =>
    \A c \in 1 .. companies, req \in RepoRequests :
        \A ord \in SortedOrders(MatchingIds(c, req)) :
            GetInvoicesByCompanyID(c, req, ord, FALSE).val
                = IF req.limit > 0
                  THEN Window(RowsOf(ord), req.page, req.limit)
                  ELSE RowsOf(ord)

\* C11 (amended): with limit > 0 and page >= 1 it returns the elements at
\* positions (page-1)*limit .. page*limit-1 (at most limit of them, none
\* when the offset is past the end); with limit > 0 and page < 1 it returns
\* the first limit elements; with limit <= 0 the whole sequence.
RepoPageWindow ==
    Idle =>
    \A c \in 1 .. companies, req \in RepoRequests :
        \A ord \in SortedOrders(MatchingIds(c, req)) :
            LET got == GetInvoicesByCompanyID(c, req, ord, FALSE)
            IN  /\ got.err = NoError
                /\ got.val
                     = IF req.limit > 0 /\ req.page >= 1
                       THEN Window(RowsOf(ord), req.page, req.limit)
                       ELSE IF req.limit > 0
                       THEN Window(RowsOf(ord), 1, req.limit)
                       ELSE RowsOf(ord)
                /\ req.limit > 0 => Len(got.val) <= req.limit
                /\ (req.limit > 0 /\ req.page >= 1
                       /\ (req.page - 1) * req.limit >= Len(ord))
                   => got.val = <<>>

\* the second page of a listing has just been served with one invoice
SecondPageServed ==
    /\ resp.op = "getInvoices"
    /\ resp.status = StatusOK
    /\ Len(resp.data) = 1
    /\ \E k \in DOMAIN repoReq : repoReq[k].page = 2 /\ repoReq[k].limit = 1

Descending(rows) ==
    \A i, j \in DOMAIN rows :
        i < j => rows[i].payment_due_date >= rows[j].payment_due_date

\* C12: the sequence a listing returns is ordered by payment_due_date
\* descending: of two invoices in it, the earlier one has a
\* payment_due_date greater than or equal to the later one's.
ListingDescending ==
    /\ resp.op = "getInvoices" => Descending(resp.data)
    /\ Idle =>
       \A c \in 1 .. companies, req \in RepoRequests :
           \A ord \in SortedOrders(MatchingIds(c, req)) :
               Descending(GetInvoicesByCompanyID(c, req, ord, FALSE).val)

\* a listing has just returned the later-created invoice first because it
\* is due later
LaterDueListedFirst ==
    /\ resp.op = "getInvoices"
    /\ Len(resp.data) = 2
    /\ resp.data[1].payment_due_date > resp.data[2].payment_due_date
    /\ resp.data[1].id > resp.data[2].id

BoundParams == {Absent, Num(0), Num(1), Num(2)}
\* the ids of the invoices in a response
IdsIn(rows) == {rows[k].id : k \in DOMAIN rows}

\* C13: when a start and/or end date is supplied, a listing returns the
\* caller's invoice exactly when the payment_due_date given at its creation
\* is >= start and <= end; stated for the invoice that has just been
\* created, whose request is still at hand.
DateFilterOnGivenDueDate ==
    (resp.op = "createInvoice" /\ resp.status = StatusOK /\ built # <<>>) =>
    \A u \in DOMAIN users, startP \in BoundParams, endP \in BoundParams :
        (users[u].company_id = built[1].company_id
            /\ (startP # Absent \/ endP # Absent))
        => \A o \in ListingOutcome(u, startP, endP, "", Absent, Absent, "none") :
              (Len(invoices) \in IdsIn(o.resp.data))
                  <=> /\ startP # Absent
                          => built[1].payment_due_date >= startP.val
                      /\ endP # Absent
                          => built[1].payment_due_date <= endP.val

\* the ids a listing without page and limit returns
ListedSet(u, startP, endP, status) ==
    UNION {IdsIn(o.resp.data) :
              o \in ListingOutcome(u, startP, endP, status, Absent, Absent,
                                   "none")}
ConjoinedStatuses == {"", "unprocessed", "paid", "cancelled"}

\* C14: a listing with several of start date, end date and status returns
\* exactly the caller's invoices that each supplied predicate alone would
\* return (logical AND); a listing with no predicate returns all of the
\* caller's invoices, so a predicate that is not supplied restricts nothing.
FiltersConjoin ==
    Idle =>
    \A u \in DOMAIN users :
        /\ ListedSet(u, Absent, Absent, "")
               = {i \in DOMAIN invoices :
                     invoices[i].company_id = users[u].company_id}
        /\ \A startP \in BoundParams, endP \in BoundParams,
              status \in ConjoinedStatuses :
               /\ ListedSet(u, startP, endP, status)
                      = ListedSet(u, startP, Absent, "")
                        \cap ListedSet(u, Absent, endP, "")
                        \cap ListedSet(u, Absent, Absent, status)
               /\ \A o \in ListingOutcome(u, startP, endP, status, Absent,
                                          Absent, "none") :
                      /\ o.resp.status = StatusOK
                      /\ IdsIn(o.resp.data)
                             = ListedSet(u, startP, endP, status)

\* a listing by status and start date has just returned some, not all, of
\* the caller's invoices
FilteredByStatusAndDate ==
    /\ resp.op = "getInvoices"
    /\ resp.data # <<>>
    /\ \E k \in DOMAIN repoReq :
          repoReq[k].status = "paid" /\ repoReq[k].start_date # NoDate
    /\ \E i \in DOMAIN invoices :
          /\ invoices[i].company_id = resp.data[1].company_id
          /\ i \notin IdsIn(resp.data)

QueriedStatuses == {"unprocessed", "processing", "paid", "error",
                    "PAID", "cancelled"}
\* the caller's invoices that pass the date filters, in a listing by status
StatusListing(u, startP, endP, status) ==
    ListingOutcome(u, startP, endP, status, Absent, Absent, "none")

NextAuth ==
    \/ \E email \in Emails : register(email, TRUE) /\ Bounded
    \/ \E header \in AuthHeaders : unauthorized(header)
    \/ \E header \in AuthHeaders :
            /\ ~JWTMiddleware(header).abort
            /\ createBusinessPartner(JWTMiddleware(header).user_id,
                                     [company_id |-> 0], TRUE, "none")
            /\ Bounded
    \/ \E header \in AuthHeaders, bp \in 1 .. MaxPartners :
            /\ ~JWTMiddleware(header).abort
            /\ createInvoice(JWTMiddleware(header).user_id,
                   [business_partner_id |-> bp, payment_amount |-> CentUnits,
                    payment_due_date |-> MaxTime + 1], now, "none")
            /\ Bounded
    \/ \E header \in AuthHeaders, idP \in IdParams :
            /\ ~JWTMiddleware(header).abort
            /\ getInvoiceByID(JWTMiddleware(header).user_id, idP, "none")
    \/ \E header \in AuthHeaders :
            /\ ~JWTMiddleware(header).abort
            /\ getInvoices(JWTMiddleware(header).user_id, Absent, Absent, "",
                           Absent, Absent, "none")
    \/ Respond

SpecAuth == Init /\ [][NextAuth]_vars

FailingHeaders == {h \in AuthHeaders : h.kind # "valid"}

\* C16: a request to a protected /api route whose Authorization header is
\* missing, lacks the "Bearer " prefix or carries a token that fails
\* verification is aborted by the middleware with 401 "unauthorized"; a
\* step that answers 401 runs no service operation (it builds no invoice
\* and sends no request to the repository) and changes no stored record.
UnauthorizedRejected ==
    [][/\ \A h \in FailingHeaders :
             /\ JWTMiddleware(h).abort
             /\ JWTMiddleware(h).resp.status = StatusUnauthorized
             /\ JWTMiddleware(h).resp.error = "unauthorized"
             /\ ENABLED unauthorized(h) <=> Idle
       /\ resp'.status = StatusUnauthorized =>
             /\ UNCHANGED <<companies, users, partners, invoices>>
             /\ built' = <<>>
             /\ repoReq' = <<>>]_vars

\* a token that fails verification has just been refused while invoices
\* are stored
InvalidTokenRefused ==
    /\ resp.status = StatusUnauthorized
    /\ resp.error = "unauthorized"
    /\ resp.message = Errorf("Invalid token")
    /\ invoices # <<>>

\* the calls whose INSERT has returned
Inserted == {i \in DOMAIN calls : calls[i].pc \in {"inserted", "done"}}

\* the amounts InvoiceService.CreateInvoice computes from the request of
\* `call`, as the columns of the table keep them
OwnAmounts(call, row) ==
    LET own == InvoiceRow(row.id,
                          NewInvoice(users[call.user_id], call.req, now))
    IN  /\ row.company_id = users[call.user_id].company_id
        /\ row.business_partner_id = call.req.business_partner_id
        /\ row.payment_amount = Decimal2(call.req.payment_amount)
        /\ row.payment_amount = own.payment_amount
        /\ row.fee = own.fee
        /\ row.fee_rate = own.fee_rate
        /\ row.consumption_tax = own.consumption_tax
        /\ row.consumption_tax_rate = own.consumption_tax_rate
        /\ row.invoice_amount = own.invoice_amount

\* C17: under every interleaving of the steps of concurrent valid
\* create-invoice requests, every finished request succeeded with status
\* 200 and the invoice of its own request, the calls that inserted hold
\* pairwise distinct identifiers, the table grew by exactly one row for each
\* of them, and each row carries the amounts computed from the request of
\* the call that inserted it.
ConcurrentCreatesIndependent ==
    /\ Len(invoices) = Cardinality(Inserted)
    /\ \A i \in Inserted :
            /\ calls[i].id \in DOMAIN invoices
            /\ invoices[calls[i].id].id = calls[i].id
            /\ OwnAmounts(calls[i], invoices[calls[i].id])
            /\ \A j \in Inserted : calls[j].id = calls[i].id => j = i
    /\ \A i \in DOMAIN calls :
            calls[i].pc = "done" =>
                /\ calls[i].resp.status = StatusOK
                /\ Len(calls[i].resp.data) = 1
                /\ calls[i].resp.data[1] = invoices[calls[i].id]
                /\ OwnAmounts(calls[i], calls[i].resp.data[1])

\* two requests of one user for different partners and with different
\* amounts are both answered, and the one accepted later inserted first
OvertakenCreateServed ==
    /\ Len(calls) >= 2
    /\ calls[1].pc = "done"
    /\ calls[2].pc = "done"
    /\ calls[1].id > calls[2].id
    /\ calls[1].user_id = calls[2].user_id
    /\ calls[1].req.business_partner_id # calls[2].req.business_partner_id
    /\ calls[1].req.payment_amount # calls[2].req.payment_amount
    /\ calls[1].resp.status = StatusOK
    /\ calls[2].resp.status = StatusOK

\* the monetary columns of an invoice
Amounts(row) ==
    <<row.payment_amount, row.fee, row.fee_rate, row.consumption_tax,
      row.consumption_tax_rate, row.invoice_amount>>

\* C18: no step (a read, another creation, UpdateInvoiceStatus) removes a
\* stored invoice or changes its payment_amount, fee, fee_rate,
\* consumption_tax, consumption_tax_rate or invoice_amount, and every
\* successful GetInvoiceByID answers with exactly the stored values of
\* these fields, so repeated reads of one id agree.
StoredAmountsImmutable ==
    [][/\ Len(invoices') >= Len(invoices)
       /\ \A i \in DOMAIN invoices :
               Amounts(invoices'[i]) = Amounts(invoices[i])
       /\ (resp'.op = "getInvoiceByID" /\ resp'.status = StatusOK) =>
               /\ resp'.data[1].id \in DOMAIN invoices
               /\ Amounts(resp'.data[1]) = Amounts(invoices[resp'.data[1].id])
      ]_vars

\* the first invoice is read back after a later creation and its payment
PaidInvoiceReadBack ==
    /\ resp.op = "getInvoiceByID"
    /\ resp.status = StatusOK
    /\ resp.data[1].id = 1
    /\ resp.data[1].status = "paid"
    /\ resp.data[1].fee > 0
    /\ Len(invoices) >= 2

\* the request bodies that carry a "status" member besides the fields of
\* CreateInvoiceRequest
RequestsWithStatus ==
    {req @@ [status |-> st] :
        req \in [business_partner_id : DOMAIN partners,
                 payment_amount : StoredAmounts,
                 payment_due_date : {MaxTime + 1}],
        st \in InvoiceStatuses \cup NewStatuses}

\* C19: the invoice a successful createInvoice answers with is the row it
\* stored and has status unprocessed; and whatever "status" the request
\* body carries and whichever database call fails, every row the request
\* adds and every invoice it returns has status unprocessed.
CreatedUnprocessed ==
    /\ (resp.op = "createInvoice" /\ resp.status = StatusOK) =>
            /\ resp.data[1] = invoices[Len(invoices)]
            /\ resp.data[1].status = InvoiceStatusUnprocessed
            /\ built[1].status = InvoiceStatusUnprocessed
    /\ Idle =>
         \A u \in UserIds, req \in RequestsWithStatus,
            fault \in {"none", "insert", "reread"} :
            LET o == createInvoiceOutcome(u, req, now, now, fault)
            IN  /\ \A i \in DOMAIN o.store \ DOMAIN invoices :
                        o.store[i].status = InvoiceStatusUnprocessed
                /\ \A k \in DOMAIN o.resp.data :
                        o.resp.data[k].status = InvoiceStatusUnprocessed
                /\ (fault = "none" /\ OwnPartner(u, req.business_partner_id))
                        => /\ o.resp.status = StatusOK
                           /\ Len(o.store) = Len(invoices) + 1

\* an invoice is created and answered while an earlier one is already paid
CreatedBesidePaid ==
    /\ resp.op = "createInvoice"
    /\ resp.status = StatusOK
    /\ resp.data[1].status = InvoiceStatusUnprocessed
    /\ resp.data[1].id >= 2
    /\ invoices[1].status = "paid"

\* the error chain ends in a failure of the database call
StoreFailure(err) == err # NoError /\ err[Len(err)] = DBError[1]

\* the error chain ends in a business partner or an invoice that is
\* missing or belongs to another company
MissingOrForeign(err) ==
    /\ err # NoError
    /\ err[Len(err)] \in {"business partner not found",
                          "business partner does not belong to your company",
                          "invoice not found"}

\* C20: every response of createInvoice, getInvoiceByID and getInvoices to
\* a validation error has status 400, every response to a missing or
\* other-company business partner or invoice has status 404, and every
\* response to a failed database call has status 500.
ErrorKindDecidesClass ==
    resp.op \in {"createInvoice", "getInvoiceByID", "getInvoices"} =>
        /\ resp.error \in {"validation_error", "invalid_id"}
                => resp.status = StatusBadRequest
        /\ MissingOrForeign(resp.message) => resp.status = StatusNotFound
        /\ StoreFailure(resp.message)
                => resp.status = StatusInternalServerError

\* C21: the fee and the consumption tax of a created invoice, in the row
\* stored and in the invoice createInvoice answers with, are the unrounded
\* products the service computed: 4% of the payment amount and 10% of the
\* fee (payment amount 1 gives fee 0.04 and consumption tax 0.004).
FeeAndTaxUnrounded ==
    (resp.op = "createInvoice" /\ resp.status = StatusOK) =>
        LET x == resp.data[1]
            b == built[1]
        IN  /\ x.fee = b.fee
            /\ x.consumption_tax = b.consumption_tax
            /\ invoices[x.id].fee = b.fee
            /\ invoices[x.id].consumption_tax = b.consumption_tax
            /\ b.payment_amount = Yen(1) =>
                  /\ x.fee = 4 * CentUnits
                  /\ x.consumption_tax * 10 = 4 * CentUnits

\* the business partners of a company in the order of their insertion
InsertedPartners(companyID) ==
    SelectSeq([id \in DOMAIN partners |->
                  [id |-> id, company_id |-> partners[id].company_id]],
              LAMBDA row : row.company_id = companyID)

\* C22: every successful answer of getBusinessPartners is, for the company
\* of some stored user, the sequence of exactly the business partners of
\* that company in the order in which they were inserted.
PartnersListedInInsertionOrder ==
    (resp.op = "getBusinessPartners" /\ resp.status = StatusOK) =>
        \E u \in DOMAIN users :
            resp.data = InsertedPartners(users[u].company_id)

\* C29: whatever company_id the request body carries, a step of
\* createBusinessPartner by user U either leaves the business partners as
\* they were or appends one partner whose company_id is the company_id of
\* U, a stored user; no step changes or removes a stored partner, and
\* every partner is added by a createBusinessPartner answered 201.
PartnerCreatedInOwnCompany ==
    [][/\ \A u \in UserIds, body \in PartnerBodies, wellFormed \in BOOLEAN,
          fault \in {"none", "get_user", "insert"} :
            createBusinessPartner(u, body, wellFormed, fault) =>
                \/ UNCHANGED partners
                \/ /\ u \in DOMAIN users
                   /\ partners' = Append(partners,
                                    [company_id |-> users[u].company_id])
       /\ Len(partners') >= Len(partners)
       /\ \A i \in DOMAIN partners : partners'[i] = partners[i]
       /\ Len(partners') > Len(partners) =>
            /\ resp'.op = "createBusinessPartner"
            /\ resp'.status = StatusCreated
      ]_vars

\* a partner has just been created while the partners of two companies
\* are stored
PartnersOfTwoCompaniesStored ==
    /\ resp.op = "createBusinessPartner"
    /\ resp.status = StatusCreated
    /\ Len(partners) >= 2
    /\ partners[1].company_id # partners[2].company_id
    /\ \A i \in DOMAIN partners :
          \E u \in DOMAIN users : users[u].company_id = partners[i].company_id

\* C23: in every reachable state every stored invoice has its
\* payment_due_date after its issue_date, and so has the invoice the
\* service built from the two readings of the clock.
DueAfterIssue ==
    /\ \A i \in DOMAIN invoices :
            invoices[i].payment_due_date > invoices[i].issue_date
    /\ \A k \in DOMAIN built :
            built[k].payment_due_date > built[k].issue_date

\* C24: against one state of the store, every two listings with the same
\* filter and pagination answer with the same sequence, whichever order the
\* server gives to invoices with equal payment_due_date.
ListingDeterministic ==
    Idle =>
    \A u \in UserIds, status \in ListStatuses, pageP \in ListPageParams,
       limitP \in ListLimitParams :
        \A ord1, ord2 \in SortedOrders(ListedIds(u, Absent, Absent, status,
                                                 pageP, limitP, "none")) :
            getInvoicesOutcome(u, Absent, Absent, status, pageP, limitP,
                               ord1, "none").resp
              = getInvoicesOutcome(u, Absent, Absent, status, pageP, limitP,
                                   ord2, "none").resp

\* the error of an operation that stopped at the lookup of the acting user
UserNotFound(err) == err # NoError /\ err[1] = "user not found"

\* C25: when the acting user id matches no stored user, CreateInvoice,
\* GetInvoices and GetInvoiceByID each return no data and an error that
\* starts with "user not found", whatever the request names and whichever
\* database call fails; CreateInvoice builds no invoice and leaves the
\* invoices table as it was, GetInvoices never calls the repository, and
\* the handlers answer without data.
MissingUserRefused ==
    Idle =>
    \A u \in UserIds \ DOMAIN users, fault \in AllFaults :
        /\ \A req \in CreateInvoiceRequests, t \in {now, now + 1} :
            LET r == CreateInvoice(u, req, t, fault)
                o == createInvoiceOutcome(u, req, now, t, fault)
            IN  /\ r.val = <<>>
                /\ UserNotFound(r.err)
                /\ r.store = invoices
                /\ r.built = <<>>
                /\ o.resp.status # StatusOK
                /\ o.resp.data = <<>>
                /\ o.store = invoices
        /\ \A startP \in DateParams, status \in FilterStatuses,
              pageP \in PageParams, limitP \in LimitParams :
            LET req == ParseGetInvoicesRequest(startP, Absent, status,
                                               pageP, limitP)
                r == GetInvoices(u, req, <<>>, fault)
                o == getInvoicesOutcome(u, startP, Absent, status, pageP,
                                        limitP, <<>>, fault)
            IN  /\ r.val = <<>>
                /\ UserNotFound(r.err)
                /\ r.repoReq = <<>>
                /\ o.resp.status # StatusOK
                /\ o.resp.data = <<>>
                /\ o.repoReq = <<>>
        /\ \A id \in InvoiceIds :
            /\ GetInvoiceByID(u, id, fault).val = <<>>
            /\ UserNotFound(GetInvoiceByID(u, id, fault).err)
            /\ getInvoiceByIDResponse(u, Num(id), fault).status # StatusOK
            /\ getInvoiceByIDResponse(u, Num(id), fault).data = <<>>

\* a create-invoice request whose token names a user that is not stored
\* has been refused while a business partner exists
MissingUserCreateRefused ==
    /\ resp.op = "createInvoice"
    /\ resp.status = StatusInternalServerError
    /\ resp.message = <<"user not found", "user not found">>
    /\ partners # <<>>
    /\ Len(users) < MaxCompanies

\* the invoice with the fields of `row` and the status of `other`
WithStatusOf(row, other) == [row EXCEPT !.status = other.status]

\* the unfiltered listing request for one page
Unfiltered(page, limit) ==
    [start_date |-> NoDate, end_date |-> NoDate, status |-> "",
     page |-> page, limit |-> limit]

\* invoice i is what GetInvoiceByID returns to every stored user of its
\* company, and for each page size and each order the server may give to
\* the unfiltered listing of that company, some page holds it
VisibleToOwnCompany(i) ==
    /\ \A u \in DOMAIN users :
            users[u].company_id = invoices[i].company_id =>
                GetInvoiceByID(u, i, "none")
                    = [val |-> <<invoices[i]>>, err |-> NoError]
    /\ \A limit \in {1, DefaultLimit} :
       \A ord \in SortedOrders(MatchingIds(invoices[i].company_id,
                                           Unfiltered(1, limit))) :
       \E page \in 1 .. Len(ord) :
           LET got == GetInvoicesByCompanyID(invoices[i].company_id,
                          Unfiltered(page, limit), ord, FALSE).val
           IN  \E k \in DOMAIN got : got[k] = invoices[i]

StatusArguments == InvoiceStatuses \cup NewStatuses \cup {"", "PAID"}

\* C27: in every reachable state the status of every stored invoice is one
\* of unprocessed, processing, paid, error, and whatever identifier and
\* status string UpdateInvoiceStatus is called with, it leaves such a table.
StatusWithinEnum ==
    /\ \A i \in DOMAIN invoices : invoices[i].status \in InvoiceStatuses
    /\ Idle =>
         \A id \in 0 .. Len(invoices) + 1, status \in StatusArguments :
            \A i \in DOMAIN RepoUpdateInvoiceStatus(id, status).store :
                RepoUpdateInvoiceStatus(id, status).store[i].status
                    \in InvoiceStatuses

\* a status outside the enumeration has just been refused while an invoice
\* stands in status error
StatusOutsideEnumRefused ==
    /\ resp.op = "UpdateInvoiceStatus"
    /\ resp.message # NoError
    /\ \E i \in DOMAIN invoices : invoices[i].status = "error"

\* C28: no step removes a stored invoice or changes its id, company_id or
\* business_partner_id, so the stored identifiers only grow; and no step
\* removes a company or a business partner, so every stored invoice keeps
\* its owning company and partner.
InvoicesNeverRemoved ==
    [][/\ Len(invoices') >= Len(invoices)
       /\ \A i \in DOMAIN invoices :
            /\ invoices'[i].id = invoices[i].id
            /\ invoices'[i].company_id = invoices[i].company_id
            /\ invoices'[i].business_partner_id
                  = invoices[i].business_partner_id
       /\ companies' >= companies
       /\ Len(partners') >= Len(partners)
       /\ \A p \in DOMAIN partners : partners'[p] = partners[p]
       /\ \A i \in DOMAIN invoices' :
            /\ invoices'[i].id = i
            /\ invoices'[i].company_id \in 1 .. companies'
            /\ invoices'[i].business_partner_id \in DOMAIN partners'
      ]_vars

\* the status of the first invoice has just been updated, after an invoice
\* and a business partner were stored behind it
InvoiceUpdatedBehindOthers ==
    /\ resp.op = "UpdateInvoiceStatus"
    /\ resp.message = NoError
    /\ invoices # <<>>
    /\ invoices[1].status = "paid"
    /\ Len(partners) >= 2

\* C30: a step of register either is answered 201 and stores one company
\* and one user of that company, or is answered with an error and leaves
\* the companies and the users as they were.
RegistrationAllOrNothing ==
    [][resp'.op = "register" =>
          IF resp'.status = StatusCreated
          THEN /\ companies' = companies + 1
               /\ Len(users') = Len(users) + 1
               /\ users'[Len(users')].company_id = companies'
          ELSE UNCHANGED <<companies, users>>]_vars

============================================================================
